---- MODULE Spec2Model ----
(***************************************************************************)
(* Model of the Ai-Review repository: the Review Client (the Home          *)
(* component: submitHandler, handleCopyAll, handleCopyCode and the         *)
(* enabling of its controls) and the Review Gateway (main in               *)
(* services/ai.service.js).                                                *)
(*                                                                         *)
(* JavaScript strings are modelled as sequences of one-character strings,  *)
(* so that trim, the regular-expression scan of handleCopyCode, join and   *)
(* JSON.stringify are computed character by character.                     *)
(***************************************************************************)
EXTENDS Integers, Sequences, FiniteSets, TLC

VARIABLES code, review, loading, inflight, toast, clipboard, writes, calls

vars == <<code, review, loading, inflight, toast, clipboard, writes, calls>>

clientVars == <<code, review, loading, inflight, toast, clipboard, writes>>

(***************************************************************************)
(* Bounds                                                                  *)
(***************************************************************************)
MaxCodeLen == 2

MaxPieces == 6

MaxInFlight == 2

MaxWrites == 2

NumCalls == 2

(***************************************************************************)
(* Characters and strings                                                  *)
(***************************************************************************)
\* \w of the regular expression: [A-Za-z0-9_]
WordChars ==
    {"a","b","c","d","e","f","g","h","i","j","k","l","m","n","o","p","q","r",
     "s","t","u","v","w","x","y","z",
     "A","B","C","D","E","F","G","H","I","J","K","L","M","N","O","P","Q","R",
     "S","T","U","V","W","X","Y","Z",
     "0","1","2","3","4","5","6","7","8","9","_"}

\* the white space String.prototype.trim removes (the part of it the inputs use)
WhiteSpace == {" ", "\t", "\n", "\r", "\f"}

\* the grave accent (U+0060); the TLA+ lexer does not accept that character
\* inside a string, so it is denoted by a name
Grave == "GRAVE"

Fence == <<Grave, Grave, Grave>>

RECURSIVE TrimLeft(_)
TrimLeft(s) ==
    IF s /= <<>> /\ Head(s) \in WhiteSpace THEN TrimLeft(Tail(s)) ELSE s

RECURSIVE TrimRight(_)
TrimRight(s) ==
    IF s /= <<>> /\ s[Len(s)] \in WhiteSpace
    THEN TrimRight(SubSeq(s, 1, Len(s) - 1))
    ELSE s

\* String.prototype.trim
Trim(s) == TrimRight(TrimLeft(s))

RECURSIVE Join(_, _)
\* Array.prototype.join
Join(parts, sep) ==
    IF parts = <<>> THEN <<>>
    ELSE IF Len(parts) = 1 THEN parts[1]
    ELSE parts[1] \o sep \o Join(Tail(parts), sep)

RECURSIVE Flatten(_)
Flatten(parts) ==
    IF parts = <<>> THEN <<>> ELSE Head(parts) \o Flatten(Tail(parts))

(***************************************************************************)
(* JSON.stringify(data, null, 2) of an object { message: m }               *)
(***************************************************************************)
JsonEscapeChar(c) ==
    CASE c = "\"" -> <<"\\", "\"">>
      [] c = "\\" -> <<"\\", "\\">>
      [] c = "\n" -> <<"\\", "n">>
      [] c = "\t" -> <<"\\", "t">>
      [] c = "\r" -> <<"\\", "r">>
      [] c = "\f" -> <<"\\", "f">>
      [] OTHER    -> <<c>>

RECURSIVE JsonEscape(_)
JsonEscape(s) ==
    IF s = <<>> THEN <<>> ELSE JsonEscapeChar(Head(s)) \o JsonEscape(Tail(s))

JsonStringify(m) ==
    <<"{", "\n", " ", " ", "\"", "m", "e", "s", "s", "a", "g", "e", "\"", ":", " ", "\"">>
        \o JsonEscape(m) \o <<"\"", "\n", "}">>

(***************************************************************************)
(* The scan of handleCopyCode:                                             *)
(*     [...review.matchAll(/```(?:\w+)?\n([\s\S]*?)```/g)]                 *)
(***************************************************************************)
IsFenceAt(s, p) ==
    /\ p >= 1
    /\ p + 2 <= Len(s)
    /\ s[p] = Grave /\ s[p + 1] = Grave /\ s[p + 2] = Grave

RECURSIVE WordRun(_, _)
\* the length of the greedy \w+ at position p
WordRun(s, p) ==
    IF p <= Len(s) /\ s[p] \in WordChars THEN 1 + WordRun(s, p + 1) ELSE 0

RECURSIVE FindFence(_, _)
\* the first position >= q where ``` occurs, 0 if there is none
FindFence(s, q) ==
    IF q + 2 > Len(s) THEN 0
    ELSE IF IsFenceAt(s, q) THEN q
    ELSE FindFence(s, q + 1)

NoMatch == [ok |-> FALSE, open |-> 0, from |-> 0, close |-> 0]

\* one attempt of the expression at position p. The optional group (?:\w+)?
\* is greedy; a shorter run leaves a word character where \n is required, so
\* only the maximal run (or none) can be followed by \n. The lazy group then
\* ends at the first ``` after the newline.
MatchAt(s, p) ==
    IF ~IsFenceAt(s, p) THEN NoMatch
    ELSE LET nl == p + 3 + WordRun(s, p + 3)
         IN  IF nl <= Len(s) /\ s[nl] = "\n"
             THEN LET e == FindFence(s, nl + 1)
                  IN  IF e = 0 THEN NoMatch
                      ELSE [ok |-> TRUE, open |-> p, from |-> nl + 1, close |-> e]
             ELSE NoMatch

RECURSIVE MatchAll(_, _)
\* the matches from lastIndex = p on, in order; after a match the scan
\* resumes behind its closing ```
MatchAll(s, p) ==
    IF p > Len(s) THEN <<>>
    ELSE LET m == MatchAt(s, p)
         IN  IF m.ok THEN <<m>> \o MatchAll(s, m.close + 3)
             ELSE MatchAll(s, p + 1)

\* m[1] of a match
Group1(s, m) == SubSeq(s, m.from, m.close - 1)

\* codeBlocks of handleCopyCode
CodeBlocks(s) ==
    LET ms == MatchAll(s, 1)
    IN  [i \in 1 .. Len(ms) |-> Trim(Group1(s, ms[i]))]

(***************************************************************************)
(* Values                                                                  *)
(***************************************************************************)
CodeChars == {" ", "a"}

SeqsUpTo(S, n) == UNION {[1 .. k -> S] : k \in 0 .. n}

Codes == SeqsUpTo(CodeChars, MaxCodeLen)

Pieces == {Fence, <<"a">>, <<"+">>, <<"\n">>}

BoundedReviews == {Flatten(ps) : ps \in SeqsUpTo(Pieces, MaxPieces)}

\* "```js\nfoo()\n```" and "```py\nbar()\n```", one per line
TwoBlockReview ==
    Fence \o <<"j", "s", "\n", "f", "o", "o", "(", ")", "\n">> \o Fence \o <<"\n">>
    \o Fence \o <<"p", "y", "\n", "b", "a", "r", "(", ")", "\n">> \o Fence

\* a block tagged c++ followed by prose and a block tagged js
CppReview ==
    Fence \o <<"c", "+", "+", "\n", "x", "\n">> \o Fence \o <<"\n", "t", "\n">>
    \o Fence \o <<"j", "s", "\n", "y", "\n">> \o Fence

ProseReview == <<"o", "k">>

ExampleReviews == {TwoBlockReview, CppReview, ProseReview}

\* what axios hands to the handler as data
StringData(s) == [kind |-> "string", text |-> s]

ObjectData(m) == [kind |-> "object", text |-> m]

NullData == [kind |-> "null", text |-> <<>>]

ResponseData ==
    {StringData(r) : r \in ExampleReviews \cup {<<>>}}
        \cup {ObjectData(<<"o", "k">>), ObjectData(<<>>), NullData}

Notice(level, id) == [level |-> level, id |-> id, text |-> <<>>]

NoNotice == Notice("none", "none")

PleaseWrite == Notice("alert", "pleaseWrite")

ReviewFailed == Notice("error", "reviewFailed")

Reviewed == Notice("success", "reviewed")

NothingToCopy == Notice("error", "nothingToCopy")

NoCodeFound == Notice("error", "noCode")

FullCopied == Notice("success", "fullCopied")

CodeCopied == Notice("success", "codeCopied")

(***************************************************************************)
(* Review Client: the Home component                                       *)
(***************************************************************************)
\* variant: the button is never disabled
SubmitEnabledAlways == TRUE

\* the submit button: disabled={loading}
SubmitEnabled == ~loading

\* the CodeMirror editor is given no editable, readOnly or disabled property
InputEnabled == TRUE

\* variant: if (!code), the trim forgotten
InvalidInputNoTrim(c) == c = <<>>

\* variant: the check left out
InvalidInputMissing(c) == FALSE

\* if (!code.trim())
InvalidInput(c) == Trim(c) = <<>>

\* if (!review)
HasReview(r) == r /= <<>>

\* variant: the empty result is not checked
NoBlocksNever(blocks) == FALSE

\* codeBlocks.length === 0
NoBlocks(blocks) == Len(blocks) = 0

\* the React state the handlers set
ClientState == [code |-> code, review |-> review, loading |-> loading, toast |-> toast]

SetClient(st) ==
    /\ code' = st.code
    /\ review' = st.review
    /\ loading' = st.loading
    /\ toast' = st.toast

\* toast.success(data.message || "Code reviewed successfully!")
SuccessNotice(data) ==
    IF data.kind = "object" /\ data.text /= <<>>
    THEN [level |-> "success", id |-> "data.message", text |-> data.text]
    ELSE Reviewed

\* typeof data === "object" ? JSON.stringify(data, null, 2) : data
ReviewText(data) ==
    IF data.kind = "object" THEN JsonStringify(data.text) ELSE data.text

\* variant: no finally block, loading cleared on the success path only
OnErrorNoFinally(st) == [st EXCEPT !.toast = ReviewFailed]

\* variant: the catch block also resets the stored review
OnErrorClearsReview(st) ==
    [st EXCEPT !.toast = ReviewFailed, !.loading = FALSE, !.review = <<>>]

\* catch (error) { toast.error(...) } finally { setLoading(false) }
OnError(st) == [st EXCEPT !.toast = ReviewFailed, !.loading = FALSE]

\* the handler after the await, for a resolved call: reading data.message of
\* a null body throws and is caught; otherwise the review is stored and the
\* code cleared; finally clears loading on both paths
OnResponse(st, data) ==
    IF data.kind = "null" THEN OnError(st)
    ELSE [st EXCEPT !.toast = SuccessNotice(data),
                    !.review = ReviewText(data),
                    !.code = <<>>,
                    !.loading = FALSE]

\* onChange={(value) => setCode(value)}
ChangeCode ==
    /\ InputEnabled
    /\ \E value \in Codes : code' = value
    /\ UNCHANGED <<review, loading, inflight, toast, clipboard, writes, calls>>

\* a submit of the form: submitHandler up to its await
SubmitClick ==
    /\ SubmitEnabled
    /\ IF InvalidInput(code)
       THEN /\ toast' = PleaseWrite
            /\ UNCHANGED <<loading, inflight>>
       ELSE /\ Len(inflight) < MaxInFlight
            /\ loading' = TRUE
            /\ inflight' = Append(inflight, [code |-> code])
            /\ UNCHANGED toast
    /\ UNCHANGED <<code, review, clipboard, writes, calls>>

Remove(q, i) == SubSeq(q, 1, i - 1) \o SubSeq(q, i + 1, Len(q))

\* the axios.post of a pending submit resolves with data
Resolve(i) ==
    /\ i \in DOMAIN inflight
    /\ \E data \in ResponseData : SetClient(OnResponse(ClientState, data))
    /\ inflight' = Remove(inflight, i)
    /\ UNCHANGED <<clipboard, writes, calls>>

\* the axios.post of a pending submit rejects
Reject(i) ==
    /\ i \in DOMAIN inflight
    /\ SetClient(OnError(ClientState))
    /\ inflight' = Remove(inflight, i)
    /\ UNCHANGED <<clipboard, writes, calls>>

handleCopyAll ==
    /\ IF ~HasReview(review)
       THEN /\ toast' = NothingToCopy
            /\ UNCHANGED <<clipboard, writes>>
       ELSE /\ writes < MaxWrites
            /\ clipboard' = review
            /\ writes' = writes + 1
            /\ toast' = FullCopied
    /\ UNCHANGED <<code, review, loading, inflight, calls>>

handleCopyCode ==
    /\ IF ~HasReview(review)
       THEN /\ toast' = NothingToCopy
            /\ UNCHANGED <<clipboard, writes>>
       ELSE LET codeBlocks == CodeBlocks(review)
            IN  IF NoBlocks(codeBlocks)
                THEN /\ toast' = NoCodeFound
                     /\ UNCHANGED <<clipboard, writes>>
                ELSE /\ writes < MaxWrites
                     /\ clipboard' = Join(codeBlocks, <<"\n", "\n">>)
                     /\ writes' = writes + 1
                     /\ toast' = CodeCopied
    /\ UNCHANGED <<code, review, loading, inflight, calls>>

(***************************************************************************)
(* Review Gateway: main(prompt)                                            *)
(***************************************************************************)
CallIds == 1 .. NumCalls

ProviderTexts == {TwoBlockReview, ProseReview, <<>>}

NoText == <<"<", "n", "o", "n", "e", ">">>

IdleCall ==
    [pc |-> "idle", prompt |-> <<>>, sent |-> <<>>, providerCalls |-> 0,
     failure |-> "none", logged |-> 0, result |-> NoText]

\* model.generateContent([{ text: prompt }]) is issued
StartCall(prompt) ==
    [IdleCall EXCEPT !.pc = "awaiting", !.prompt = prompt, !.sent = prompt,
                     !.providerCalls = 1]

\* variant: the error is logged and swallowed, main returns undefined
CatchErrorSwallow(c, kind) ==
    [c EXCEPT !.pc = "returned", !.failure = kind, !.logged = c.logged + 1,
              !.result = <<>>]

\* catch (error) { console.error(...); throw error; }
CatchError(c, kind) ==
    [c EXCEPT !.pc = "thrown", !.failure = kind, !.logged = c.logged + 1]

\* return response.response.text()
ReturnText(c, text) == [c EXCEPT !.pc = "returned", !.result = text]

main(i) ==
    /\ calls[i].pc = "idle"
    /\ \E prompt \in Codes : calls' = [calls EXCEPT ![i] = StartCall(prompt)]
    /\ UNCHANGED clientVars

\* the provider answers; text() of a blocked or malformed answer throws
GenerateResolve(i) ==
    /\ calls[i].pc = "awaiting"
    /\ \/ \E text \in ProviderTexts :
              calls' = [calls EXCEPT ![i] = ReturnText(calls[i], text)]
       \/ calls' = [calls EXCEPT ![i] = CatchError(calls[i], "badResponse")]
    /\ UNCHANGED clientVars

\* the provider call rejects (network, authentication, quota)
GenerateReject(i) ==
    /\ calls[i].pc = "awaiting"
    /\ calls' = [calls EXCEPT ![i] = CatchError(calls[i], "rejected")]
    /\ UNCHANGED clientVars

\* the call is over; the next request is an independent call
Finish(i) ==
    /\ calls[i].pc \in {"returned", "thrown"}
    /\ calls' = [calls EXCEPT ![i] = IdleCall]
    /\ UNCHANGED clientVars

(***************************************************************************)
(* Specifications                                                          *)
(***************************************************************************)
Init ==
    /\ code = <<>>
    /\ review = <<>>
    /\ loading = FALSE
    /\ inflight = <<>>
    /\ toast = NoNotice
    /\ clipboard = <<>>
    /\ writes = 0
    /\ calls = [i \in CallIds |-> IdleCall]

Next ==
    \/ ChangeCode
    \/ SubmitClick
    \/ \E i \in 1 .. MaxInFlight : Resolve(i)
    \/ \E i \in 1 .. MaxInFlight : Reject(i)
    \/ handleCopyAll
    \/ handleCopyCode

Spec == Init /\ [][Next]_vars

\* the copy handlers on every stored review of the bounded set
InitCopy ==
    /\ code = <<>>
    /\ review \in BoundedReviews \cup ExampleReviews
    /\ loading = FALSE
    /\ inflight = <<>>
    /\ toast = NoNotice
    /\ clipboard = <<>>
    /\ writes = 0
    /\ calls = [i \in CallIds |-> IdleCall]

NextCopy ==
    \/ handleCopyAll
    \/ handleCopyCode

SpecCopy == InitCopy /\ [][NextCopy]_vars

NextGateway ==
    \/ \E i \in CallIds : main(i)
    \/ \E i \in CallIds : GenerateResolve(i)
    \/ \E i \in CallIds : GenerateReject(i)
    \/ \E i \in CallIds : Finish(i)

SpecGateway == Init /\ [][NextGateway]_vars

(***************************************************************************)
(* Fenced blocks by the delimiter convention: the triple-backtick fences   *)
(* of a text pair up in order, the first opens a block, the second closes  *)
(* it, the third opens the next one.                                       *)
(***************************************************************************)
RECURSIVE FencePositions(_, _)
FencePositions(s, p) ==
    LET f == FindFence(s, p)
    IN  IF f = 0 THEN <<>> ELSE <<f>> \o FencePositions(s, f + 3)

BlockCount(s) == Len(FencePositions(s, 1)) \div 2

\* the text of block k between its fences
BlockInner(s, k) ==
    LET f == FencePositions(s, 1)
    IN  SubSeq(s, f[2 * k - 1] + 3, f[2 * k] - 1)

RECURSIVE LineEnd(_, _)
\* the position of the first newline of t from p on, 0 if there is none
LineEnd(t, p) ==
    IF p > Len(t) THEN 0
    ELSE IF t[p] = "\n" THEN p
    ELSE LineEnd(t, p + 1)

\* the language tag of a block: the rest of its opening line
BlockTag(s, k) ==
    LET t == BlockInner(s, k) IN SubSeq(t, 1, LineEnd(t, 1) - 1)

\* the content of a block: what follows its opening line
BlockContent(s, k) ==
    LET t == BlockInner(s, k) IN SubSeq(t, LineEnd(t, 1) + 1, Len(t))

\* every block has an opening line that holds nothing but an optional tag
\* without white space, and a content that is not blank
PlainBlocks(s) ==
    \A k \in 1 .. BlockCount(s) :
        /\ LineEnd(BlockInner(s, k), 1) /= 0
        /\ \A j \in DOMAIN BlockTag(s, k) : BlockTag(s, k)[j] \notin WhiteSpace
        /\ Trim(BlockContent(s, k)) /= <<>>

TrimmedContents(s) == [k \in 1 .. BlockCount(s) |-> Trim(BlockContent(s, k))]

\* a match of the scan that covers exactly one block
IsBlock(s, m) ==
    LET f == FencePositions(s, 1)
    IN  \E k \in 1 .. BlockCount(s) : m.open = f[2 * k - 1] /\ m.close = f[2 * k]

(***************************************************************************)
(* Claims                                                                  *)
(***************************************************************************)
Settles == Len(inflight') < Len(inflight)

Dispatches == Len(inflight') > Len(inflight)

\* C1: a submit with a non-blank code sets loading once, when its request is
\* dispatched, and every settlement of the request (resolved, rejected, or
\* an exception while the response is handled) clears loading; loading is
\* true exactly while the request is pending.
C1_SubmitCycle ==
    [][/\ Dispatches => (Trim(code) /= <<>> /\ ~loading /\ loading')
       /\ Settles => (loading /\ ~loading')
       /\ (loading' /= loading) => (Dispatches \/ Settles)
       /\ loading' <=> (inflight' /= <<>>)]_vars

C1_Witness ==
    /\ ~loading
    /\ inflight = <<>>
    /\ toast = Reviewed
    /\ review /= <<>>

\* C2: a submit with an empty or white-space-only code dispatches no request
\* and leaves loading, review and code as they were.
C2_BlankSubmitNoOp ==
    [][(SubmitClick /\ Trim(code) = <<>>)
          => (inflight' = inflight /\ loading' = loading
                /\ review' = review /\ code' = code)]_vars

C2_Witness ==
    /\ toast = PleaseWrite
    /\ code /= <<>>
    /\ Trim(code) = <<>>
    /\ inflight = <<>>

\* C3: at most one request is pending, and while loading is true the submit
\* action is disabled.
C3_OneInFlight ==
    /\ Len(inflight) <= 1
    /\ loading => ~SubmitEnabled
    /\ (inflight /= <<>>) => loading

C3_Witness ==
    /\ loading
    /\ Len(inflight) = 1
    /\ Trim(code) /= <<>>

\* C4: when the gateway call fails the failure notification is shown, the
\* stored review is the one from before the submit and loading is false.
C4_FailureKeepsReview ==
    [][/\ (\E i \in 1 .. MaxInFlight : Reject(i)) => toast' = ReviewFailed
       /\ (Settles /\ toast' = ReviewFailed) => (review' = review /\ ~loading')]_vars

C4_Witness ==
    /\ toast = ReviewFailed
    /\ ~loading
    /\ review /= <<>>

\* C5: after copyCode on a stored review, the clipboard holds the trimmed
\* content of every fenced block, in order, joined by a blank line (stated
\* for reviews whose blocks have an opening line and a non-blank content).
C5_CopiesEveryBlock ==
    (/\ toast \in {CodeCopied, NoCodeFound}
     /\ PlainBlocks(review)
     /\ BlockCount(review) > 0)
        => (/\ toast = CodeCopied
            /\ clipboard = Join(TrimmedContents(review), <<"\n", "\n">>))

\* C6: every segment copyCode extracts lies inside a single fenced block: it
\* starts at the opening fence of a block and ends at that block's closing
\* fence, so it holds no text from between two blocks (stated for reviews
\* whose blocks have an opening line and a non-blank content).
C6_SegmentsWithinBlocks ==
    (toast = CodeCopied /\ PlainBlocks(review))
        => (\A i \in DOMAIN MatchAll(review, 1) :
                IsBlock(review, MatchAll(review, 1)[i]))

\* C7: with no stored review copyAll and copyCode signal "nothing to copy",
\* copyCode on a review without a fenced block signals "no code found"; in
\* these cases nothing is written to the clipboard and review, code and
\* loading stay as they are; a write happens only with a stored review.
C7_NothingToCopy ==
    [][/\ ((handleCopyAll \/ handleCopyCode) /\ review = <<>>)
            => (toast' = NothingToCopy
                  /\ UNCHANGED <<clipboard, writes, review, code, loading>>)
       /\ (handleCopyCode /\ review /= <<>> /\ BlockCount(review) = 0)
            => (toast' = NoCodeFound
                  /\ UNCHANGED <<clipboard, writes, review, code, loading>>)
       /\ (writes' /= writes) => review /= <<>>]_vars

C7_Witness ==
    /\ toast = NoCodeFound
    /\ review /= <<>>
    /\ FindFence(review, 1) /= 0
    /\ BlockCount(review) = 0
    /\ writes = 0

\* C8: a call of main makes exactly one provider call with its prompt; when
\* that call fails the failure is logged once and thrown to the caller, the
\* provider is not called again and no text is returned; a call that did
\* not fail logs nothing.
C8_OneCallNoRetry ==
    \A i \in CallIds :
        LET c == calls[i]
        IN  /\ c.pc /= "idle" => (c.providerCalls = 1 /\ c.sent = c.prompt)
            /\ c.failure /= "none"
                 => (c.pc = "thrown" /\ c.logged = 1 /\ c.result = NoText)
            /\ c.failure = "none" => (c.pc /= "thrown" /\ c.logged = 0)

C8_Witness ==
    \E i \in CallIds :
        /\ calls[i].pc = "thrown"
        /\ calls[i].failure = "rejected"
        /\ calls[i].providerCalls = 1

\* C9: while loading is true the submit action and the code input are
\* disabled, so the code input still holds the code that was sent.
C9_InputFrozenWhileSubmitting ==
    loading => (/\ ~SubmitEnabled
                /\ \A i \in DOMAIN inflight : inflight[i].code = code)

\* C10 as stated: when loading is false the input is enabled, and whenever
\* the submit action is enabled the trimmed code is non-empty.
C10_SubmitEnabledOnlyNonBlank ==
    /\ ~loading => InputEnabled
    /\ SubmitEnabled => Trim(code) /= <<>>

\* C10 amended: when loading is false the input and the submit action are
\* both enabled, whatever the code input holds; the blank check is made by
\* the submit handler, so the code of every pending request is non-blank.
C10_BlankCaughtByHandler ==
    /\ ~loading => (InputEnabled /\ SubmitEnabled)
    /\ \A i \in DOMAIN inflight : Trim(inflight[i].code) /= <<>>

C10_Witness ==
    /\ SubmitEnabled
    /\ code = <<>>
    /\ toast = PleaseWrite

====
